---------------------------- MODULE Spec2Model ----------------------------
(***************************************************************************)
(* The weighted consistent-hash ring of consistent_weight.go (type         *)
(* Consistent): the map circle from virtual-node hash to owner, the map    *)
(* members from name to weight, the slice sortedHashes and the counter     *)
(* count, with the operations Add, Remove, UpdateWeight, Set, Get, GetTwo, *)
(* GetN and GetAll.                                                        *)
(*                                                                         *)
(* A weight is a float64 in the source.  It is modelled by an integer      *)
(* numerator over WeightDenom, so that int(float64(NumberOfReplicas)*wgt)  *)
(* is (NumberOfReplicas * wgt) \div WeightDenom.  Weights are not negative *)
(* (the member contract asks for positive weights; 0 and fractions that    *)
(* yield no virtual node are kept).                                        *)
(* The hash function (CRC32 or FNV) is an arbitrary function chosen in     *)
(* Init: the variable hash gives the hash of every virtual-node key, and   *)
(* a lookup name is represented by the hash value it has.                  *)
(* Slice indices are 0-based as in the source; sortedHashes[i] of the      *)
(* source is At(sortedHashes, i).                                          *)
(*                                                                         *)
(* The module also holds the Ring of package v2 (Add, Remove, Get, Ordered *)
(* over nodes that list their members by priority) and the bounded-load    *)
(* partitioner (member additions and removals, each followed by the        *)
(* partition assignment algorithm).  The three rings share no state; each  *)
(* specification moves one of them and leaves the others as constructed.   *)
(***************************************************************************)
EXTENDS Integers, Sequences, FiniteSets, TLC

\* ------------------------------------------------------------------ bounds
MaxWeight == 3
WeightDenom == 3
MaxHash == 2
MaxN == 3
MaxRaces == 1
MaxRingWeight == 2
MaxPartitions == 3
MaxReplication == 2

\* New(numberOfReplicas)
NumberOfReplicas == 2

\* The member names the callers use; SpecGrow adds a third one.
Names == {"a", "b"}
Names3 == Names \cup {"c"}
Weights == 0..MaxWeight
Hashes == 0..MaxHash
NoName == ""

VARIABLES hash, circle, members, sortedHashes, count, last, rd, ga, sum, d,
          cfg, pr

ring == <<circle, members, sortedHashes, count>>
\* The state of the Ring of package v2 (sum is its hash function, d the Ring)
\* and of the partitioned ring (cfg its configuration, pr the ring).
weighted == <<hash, circle, members, sortedHashes, count, rd, ga>>
others == <<sum, d, cfg, pr>>
vars == <<hash, circle, members, sortedHashes, count, last, rd, ga, sum, d,
          cfg, pr>>

\* The ring as one value, the receiver c of the methods.
Ring == [circle |-> circle, members |-> members,
         sortedHashes |-> sortedHashes, count |-> count]

\* ------------------------------------------------------------- helpers
At(s, i) == s[i + 1]

Min(x, y) == IF x < y THEN x ELSE y

SetMin(S) == CHOOSE x \in S : \A y \in S : x <= y

Range(s) == {s[i] : i \in 1..Len(s)}

\* All orders in which a Go map range may visit the key set S.
Orders(S) == {s \in [1..Cardinality(S) -> S] : Range(s) = S}

\* int(float64(c.NumberOfReplicas) * wgt)
Vn(wgt) == (NumberOfReplicas * wgt) \div WeightDenom

\* strconv.Itoa(idx) + elt, kept as the pair of its two parts.
eltKey(elt, idx) == <<idx, elt>>

EltKeys == {eltKey(m, i) : m \in Names3, i \in 0..(Vn(MaxWeight) - 1)}

hashKey(key) == hash[key]

SetMax(S) == CHOOSE x \in S : \A y \in S : x >= y

\* The keys of the map collected in an order the range may produce and left
\* unsorted (sort.Sort not called).
RECURSIVE Unsorted(_)
Unsorted(S) ==
  IF S = {} THEN << >>
  ELSE LET m == SetMax(S) IN <<m>> \o Unsorted(S \ {m})

updateSortedHashesNoSort(circ) == Unsorted(DOMAIN circ)

\* sort.Sort(hashes) over the keys of the map, collected in any order.  (The
\* reuse or reallocation of the backing array does not affect the contents.)
RECURSIVE SortAsc(_)
SortAsc(S) ==
  IF S = {} THEN << >>
  ELSE LET m == SetMin(S) IN <<m>> \o SortAsc(S \ {m})

updateSortedHashes(circ) == SortAsc(DOMAIN circ)

\* The hashes of the virtual nodes of elt with indices from..to-1.
VnHashes(elt, from, to) == {hashKey(eltKey(elt, i)) : i \in from..(to - 1)}

\* circle[h] = elt for every h of hs
Assign(circ, hs, elt) ==
  [h \in (DOMAIN circ) \cup hs |-> IF h \in hs THEN elt ELSE circ[h]]

\* delete(circle, h) for every h of hs
Delete(circ, hs) == [h \in (DOMAIN circ) \ hs |-> circ[h]]

\* add that overwrites the weight of an existing member.
addUpsert(c, elt, wgt) ==
  IF elt \in DOMAIN c.members
  THEN [c EXCEPT !.members = [c.members EXCEPT ![elt] = wgt]]
  ELSE LET circ == Assign(c.circle, VnHashes(elt, 0, Vn(wgt)), elt)
       IN [circle |-> circ,
           members |-> [m \in (DOMAIN c.members) \cup {elt} |->
                          IF m = elt THEN wgt ELSE c.members[m]],
           sortedHashes |-> updateSortedHashes(circ),
           count |-> c.count + 1]

\* add that counts the call before it looks for the member.
addCountFirst(c, elt, wgt) ==
  IF elt \in DOMAIN c.members THEN [c EXCEPT !.count = @ + 1]
  ELSE LET circ == Assign(c.circle, VnHashes(elt, 0, Vn(wgt)), elt)
       IN [circle |-> circ,
           members |-> [m \in (DOMAIN c.members) \cup {elt} |->
                          IF m = elt THEN wgt ELSE c.members[m]],
           sortedHashes |-> updateSortedHashes(circ),
           count |-> c.count + 1]

add(c, elt, wgt) ==
  IF elt \in DOMAIN c.members THEN c
  ELSE LET circ == Assign(c.circle, VnHashes(elt, 0, Vn(wgt)), elt)
       IN [circle |-> circ,
           members |-> [m \in (DOMAIN c.members) \cup {elt} |->
                          IF m = elt THEN wgt ELSE c.members[m]],
           sortedHashes |-> updateSortedHashes(circ),
           count |-> c.count + 1]

\* remove that takes the member out of members and leaves its ring entries.
removeKeepEntries(c, elt) ==
  IF elt \notin DOMAIN c.members THEN c
  ELSE [circle |-> c.circle,
        members |-> [m \in (DOMAIN c.members) \ {elt} |-> c.members[m]],
        sortedHashes |-> updateSortedHashes(c.circle),
        count |-> c.count - 1]

remove(c, elt) ==
  IF elt \notin DOMAIN c.members THEN c
  ELSE LET wgt == c.members[elt]
           circ == Delete(c.circle, VnHashes(elt, 0, Vn(wgt)))
       IN [circle |-> circ,
           members |-> [m \in (DOMAIN c.members) \ {elt} |-> c.members[m]],
           sortedHashes |-> updateSortedHashes(circ),
           count |-> c.count - 1]

\* updateWeight whose growing branch deletes, as the shrinking branch does.
updateWeightBothDelete(c, elt, newWgt) ==
  IF elt \notin DOMAIN c.members THEN c
  ELSE LET oldWgt == c.members[elt] IN
    IF newWgt = oldWgt THEN c
    ELSE LET circ == IF newWgt > oldWgt
                     THEN Delete(c.circle, VnHashes(elt, Vn(oldWgt), Vn(newWgt)))
                     ELSE Delete(c.circle, VnHashes(elt, Vn(newWgt), Vn(oldWgt)))
         IN [circle |-> circ,
             members |-> [c.members EXCEPT ![elt] = newWgt],
             sortedHashes |-> updateSortedHashes(circ),
             count |-> c.count]

updateWeight(c, elt, newWgt) ==
  IF elt \notin DOMAIN c.members THEN c
  ELSE LET oldWgt == c.members[elt] IN
    IF newWgt = oldWgt THEN c
    ELSE LET circ == IF newWgt > oldWgt
                     THEN Assign(c.circle, VnHashes(elt, Vn(oldWgt), Vn(newWgt)), elt)
                     ELSE Delete(c.circle, VnHashes(elt, Vn(newWgt), Vn(oldWgt)))
         IN [circle |-> circ,
             members |-> [c.members EXCEPT ![elt] = newWgt],
             sortedHashes |-> updateSortedHashes(circ),
             count |-> c.count]

\* The first loop of Set with found never set: every member is removed.
RECURSIVE SetOldNoFound(_, _, _)
SetOldNoFound(c, eltMap, ord) ==
  IF ord = << >> THEN c
  ELSE LET elt == Head(ord)
           wgt == c.members[elt]
           c1 == IF elt \in DOMAIN eltMap /\ wgt # eltMap[elt]
                 THEN updateWeight(c, elt, eltMap[elt])
                 ELSE c
       IN SetOldNoFound(remove(c1, elt), eltMap, Tail(ord))

\* The first loop of Set without the removal of the members not found.
RECURSIVE SetOldKeep(_, _, _)
SetOldKeep(c, eltMap, ord) ==
  IF ord = << >> THEN c
  ELSE LET elt == Head(ord)
           wgt == c.members[elt]
           c1 == IF elt \in DOMAIN eltMap /\ wgt # eltMap[elt]
                 THEN updateWeight(c, elt, eltMap[elt])
                 ELSE c
       IN SetOldKeep(c1, eltMap, Tail(ord))

\* First loop of Set: range over c.members in the order ord.
RECURSIVE SetOld(_, _, _)
SetOld(c, eltMap, ord) ==
  IF ord = << >> THEN c
  ELSE LET elt == Head(ord)
           wgt == c.members[elt]
           c1 == IF elt \in DOMAIN eltMap
                 THEN IF wgt # eltMap[elt]
                      THEN updateWeight(c, elt, eltMap[elt])
                      ELSE c
                 ELSE remove(c, elt)
       IN SetOld(c1, eltMap, Tail(ord))

\* Second loop of Set: range over eltMap in the order ord.
RECURSIVE SetNew(_, _, _)
SetNew(c, eltMap, ord) ==
  IF ord = << >> THEN c
  ELSE LET newElt == Head(ord)
           newWgt == eltMap[newElt]
           c1 == IF newElt \in DOMAIN c.members
                 THEN IF c.members[newElt] # newWgt
                      THEN updateWeight(c, newElt, newWgt)
                      ELSE c
                 ELSE add(c, newElt, newWgt)
       IN SetNew(c1, eltMap, Tail(ord))

\* Set with the two map ranges visiting their keys in the orders ord1, ord2.
SetIn(c, eltMap, ord1, ord2) == SetNew(SetOld(c, eltMap, ord1), eltMap, ord2)

\* The maps a caller may pass to Set.
EltMaps == UNION {[D -> Weights] : D \in SUBSET Names}

\* The binary search with the test sortedHashes[x] >= key.
RECURSIVE SearchAtLeast(_, _, _, _)
SearchAtLeast(sorted, key, i, j) ==
  IF i < j
  THEN LET h == (i + j) \div 2 IN
       IF ~(At(sorted, h) >= key)
       THEN SearchAtLeast(sorted, key, h + 1, j)
       ELSE SearchAtLeast(sorted, key, i, h)
  ELSE i

\* sort.Search(n, f): binary search for the smallest index in [0, n) at
\* which sortedHashes[x] > key, n when there is none.
RECURSIVE Search(_, _, _, _)
Search(sorted, key, i, j) ==
  IF i < j
  THEN LET h == (i + j) \div 2 IN
       IF ~(At(sorted, h) > key)
       THEN Search(sorted, key, h + 1, j)
       ELSE Search(sorted, key, i, h)
  ELSE i

search(c, key) ==
  LET i == Search(c.sortedHashes, key, 0, Len(c.sortedHashes))
  IN IF i >= Len(c.sortedHashes) THEN 0 ELSE i

ErrEmptyCircle == "empty circle"
NoErr == "nil"

\* Get, for a name whose hash is key: the pair of results.
Get(c, key) ==
  IF Cardinality(DOMAIN c.circle) = 0
  THEN [res |-> NoName, err |-> ErrEmptyCircle]
  ELSE [res |-> c.circle[At(c.sortedHashes, search(c, key))], err |-> NoErr]

\* ------------------------------------------------- GetTwo and GetN
\* A reader is the record of one call of GetTwo or GetN: pc is "loop" while
\* the for loop runs and "done" at the return statement; i is the loop
\* variable as the loop condition will test it; res is the result so far
\* (for GetTwo the pair <<a, b>>); again says that the loop body has fetched
\* the entry at index start a second time.
sliceContainsMember(set, member) == \E x \in 1..Len(set) : set[x] = member

Done(op, key, n0, res, err) ==
  [pc |-> "done", op |-> op, key |-> key, n0 |-> n0, n |-> n0, start |-> 0,
   i |-> 0, res |-> res, err |-> err, again |-> FALSE]

\* GetTwo that reports an empty circle the way GetN does, without an error.
GetTwoBeginNilErr(c, key) ==
  IF Cardinality(DOMAIN c.circle) = 0
  THEN Done("GetTwo", key, 2, <<NoName, NoName>>, NoErr)
  ELSE LET i == search(c, key)
           a == c.circle[At(c.sortedHashes, i)]
       IN IF c.count = 1
          THEN Done("GetTwo", key, 2, <<a, NoName>>, NoErr)
          ELSE [pc |-> "loop", op |-> "GetTwo", key |-> key, n0 |-> 2, n |-> 2,
                start |-> i, i |-> i + 1, res |-> <<a, NoName>>, err |-> NoErr,
                again |-> FALSE]

GetTwoBegin(c, key) ==
  IF Cardinality(DOMAIN c.circle) = 0
  THEN Done("GetTwo", key, 2, <<NoName, NoName>>, ErrEmptyCircle)
  ELSE LET i == search(c, key)
           a == c.circle[At(c.sortedHashes, i)]
       IN IF c.count = 1
          THEN Done("GetTwo", key, 2, <<a, NoName>>, NoErr)
          ELSE [pc |-> "loop", op |-> "GetTwo", key |-> key, n0 |-> 2, n |-> 2,
                start |-> i, i |-> i + 1, res |-> <<a, NoName>>, err |-> NoErr,
                again |-> FALSE]

\* One test of the loop condition of GetTwo and, when it holds, one body.
GetTwoStep(c, r) ==
  IF r.i = r.start
  THEN [r EXCEPT !.pc = "done"]
  ELSE LET i == IF r.i >= Len(c.sortedHashes) THEN 0 ELSE r.i
           b == c.circle[At(c.sortedHashes, i)]
       IN [r EXCEPT !.res = <<r.res[1], b>>,
                    !.again = r.again \/ i = r.start,
                    !.i = IF b # r.res[1] THEN i ELSE i + 1,
                    !.pc = IF b # r.res[1] THEN "done" ELSE "loop"]

GetNBegin(c, key, n0) ==
  IF Cardinality(DOMAIN c.circle) = 0
  THEN Done("GetN", key, n0, << >>, NoErr)
  ELSE LET n == IF c.count < n0 THEN c.count ELSE n0
           i == search(c, key)
           res == <<c.circle[At(c.sortedHashes, i)]>>
       IN [pc |-> IF Len(res) = n THEN "done" ELSE "loop", op |-> "GetN",
           key |-> key, n0 |-> n0, n |-> n, start |-> i, i |-> i + 1,
           res |-> res, err |-> NoErr, again |-> FALSE]

\* One test of the loop condition of GetN and, when it holds, one body.
GetNStep(c, r) ==
  IF r.i = r.start
  THEN [r EXCEPT !.pc = "done"]
  ELSE LET i == IF r.i >= Len(c.sortedHashes) THEN 0 ELSE r.i
           elem == c.circle[At(c.sortedHashes, i)]
           res == IF ~sliceContainsMember(r.res, elem)
                  THEN Append(r.res, elem) ELSE r.res
       IN [r EXCEPT !.res = res,
                    !.again = r.again \/ i = r.start,
                    !.i = IF Len(res) = r.n THEN i ELSE i + 1,
                    !.pc = IF Len(res) = r.n THEN "done" ELSE "loop"]

\* ------------------------------------------------------------- v2 Ring
\* The Ring of package v2: nodes is the slice of nodes ascending by Hash, each
\* with the list of the members placed at that hash; members maps a member's
\* ID to the member (ID, Key, Weight).  A member is added with a key k, and
\* its hashes are those of k followed by 0, 1, ... nonce bytes: sum[<<k, n>>]
\* is h.Sum32() after n nonces.  A lookup key is represented by its hash.
WeightMultiplier == 1
DefaultWeightMultiplier == 100

RingKeys == {"k1", "k2"}
RingWeights == 0..MaxRingWeight

\* wm of Add.  The member's weight is the uint32 product w * wm; the weights
\* used here stay far below 2^32, where the product wraps around.
Multiplier ==
  IF WeightMultiplier = 0 THEN DefaultWeightMultiplier ELSE WeightMultiplier

\* The streams each may read: a key and the count of nonces written.
SumKeys == RingKeys \X (0..(MaxRingWeight * Multiplier - 1))

NoSum == [x \in SumKeys |-> 0]
NoHash == [k \in EltKeys |-> 0]

\* The zero value of Ring.
NewRing == [nodes |-> << >>, members |-> << >>]

\* The order of strings on the IDs used.
IdLess(x, y) ==
  LET ids == <<"a", "b", "c">>
      Rank(id) == CHOOSE i \in 1..Len(ids) : ids[i] = id
  IN Rank(x) < Rank(y)

isHigherPriority(a, b) ==
  IF a.Weight = b.Weight THEN IdLess(a.ID, b.ID) ELSE a.Weight > b.Weight

\* node.Add that appends without looking at the priorities.
nodeAddLast(n, m) == [n EXCEPT !.Members = Append(@, m)]

\* node.Add: m goes before the first member it has priority over.
nodeAdd(n, m) ==
  LET higher == {i \in 1..Len(n.Members) : isHigherPriority(m, n.Members[i])}
  IN IF higher # {}
     THEN LET i == SetMin(higher)
          IN [n EXCEPT !.Members = SubSeq(@, 1, i - 1) \o <<m>>
                                     \o SubSeq(@, i, Len(@))]
     ELSE [n EXCEPT !.Members = Append(@, m)]

\* node.Remove: the first entry with m's ID is taken out.
nodeRemove(n, m) ==
  LET same == {i \in 1..Len(n.Members) : n.Members[i].ID = m.ID}
  IN IF same # {}
     THEN LET i == SetMin(same)
          IN [n EXCEPT !.Members = SubSeq(@, 1, i - 1)
                                     \o SubSeq(@, i + 1, Len(@))]
     ELSE n

\* sort.Search(n, f) with f(i) = nodes[i].Hash >= h
RECURSIVE FindSearch(_, _, _, _)
FindSearch(nodes, h, i, j) ==
  IF i < j
  THEN LET mid == (i + j) \div 2 IN
       IF ~(At(nodes, mid).Hash >= h)
       THEN FindSearch(nodes, h, mid + 1, j)
       ELSE FindSearch(nodes, h, i, mid)
  ELSE i

find(nodes, h, wrap) ==
  LET n == Len(nodes)
      i == FindSearch(nodes, h, 0, n)
  IN IF wrap /\ i = n THEN 0 ELSE i

\* The function Add passes to each: place mem at the hash h.
AddAt(nodes, mem, h) ==
  LET i == find(nodes, h, FALSE) IN
  IF i < Len(nodes) /\ At(nodes, i).Hash = h
  THEN [nodes EXCEPT ![i + 1] = nodeAdd(@, mem)]
  ELSE SubSeq(nodes, 1, i) \o <<[Hash |-> h, Members |-> <<mem>>]>>
         \o SubSeq(nodes, i + 1, Len(nodes))

\* The function Remove passes to each, without the removal of a node left
\* with no member.
RemoveAtKeepNode(nodes, mem, h) ==
  LET i == find(nodes, h, FALSE) IN
  IF i < Len(nodes) /\ At(nodes, i).Hash = h
  THEN [nodes EXCEPT ![i + 1] = nodeRemove(@, mem)]
  ELSE nodes

\* The function Remove passes to each: take mem from the node at the hash h.
RemoveAt(nodes, mem, h) ==
  LET i == find(nodes, h, FALSE) IN
  IF i < Len(nodes) /\ At(nodes, i).Hash = h
  THEN LET node == nodeRemove(At(nodes, i), mem) IN
       IF Len(node.Members) = 0
       THEN SubSeq(nodes, 1, i) \o SubSeq(nodes, i + 2, Len(nodes))
       ELSE [nodes EXCEPT ![i + 1] = node]
  ELSE nodes

\* each(m, fn) from its n-th turn on, for the two functions it is called with.
RECURSIVE eachAdd(_, _, _)
eachAdd(nodes, mem, n) ==
  IF n < mem.Weight
  THEN eachAdd(AddAt(nodes, mem, sum[<<mem.Key, n>>]), mem, n + 1)
  ELSE nodes

RECURSIVE eachRemove(_, _, _)
eachRemove(nodes, mem, n) ==
  IF n < mem.Weight
  THEN eachRemove(RemoveAt(nodes, mem, sum[<<mem.Key, n>>]), mem, n + 1)
  ELSE nodes

\* Ring.Add that replaces the member when m is a member already.
ringAddAgain(r, m, k, w) ==
  LET mem == [ID |-> m, Key |-> k, Weight |-> w * Multiplier]
  IN [d |-> [nodes |-> eachAdd(r.nodes, mem, 0),
             members |-> [x \in (DOMAIN r.members) \cup {m} |->
                            IF x = m THEN mem ELSE r.members[x]]],
      ok |-> TRUE]

\* Ring.Add: the ring after the call and the value returned.
ringAdd(r, m, k, w) ==
  IF m \in DOMAIN r.members THEN [d |-> r, ok |-> FALSE]
  ELSE LET mem == [ID |-> m, Key |-> k, Weight |-> w * Multiplier]
       IN [d |-> [nodes |-> eachAdd(r.nodes, mem, 0),
                  members |-> [x \in (DOMAIN r.members) \cup {m} |->
                                 IF x = m THEN mem ELSE r.members[x]]],
           ok |-> TRUE]

\* Ring.Remove: the ring after the call and the value returned.
ringRemove(r, m) ==
  IF m \notin DOMAIN r.members THEN [d |-> r, ok |-> FALSE]
  ELSE LET mem == r.members[m]
       IN [d |-> [nodes |-> eachRemove(r.nodes, mem, 0),
                  members |-> [x \in (DOMAIN r.members) \ {m} |->
                                 r.members[x]]],
           ok |-> TRUE]

\* Ring.Get, for a key whose hash is h.
ringGet(r, h) ==
  LET i == find(r.nodes, h, TRUE) IN
  IF i < Len(r.nodes)
  THEN [m |-> At(r.nodes, i).Members[1].ID, ok |-> TRUE]
  ELSE [m |-> NoName, ok |-> FALSE]

\* The inner loop of Ordered over the members ms of one node; w holds the
\* list members, the set visited and whether Ordered has returned.
RECURSIVE OrderedNode(_, _, _)
OrderedNode(r, ms, w) ==
  IF w.returned \/ ms = << >> THEN w
  ELSE LET id == Head(ms).ID IN
       IF id \in w.visited THEN OrderedNode(r, Tail(ms), w)
       ELSE LET ids == Append(w.members, id)
            IN OrderedNode(r, Tail(ms),
                 [members |-> ids, visited |-> w.visited \cup {id},
                  returned |-> Len(ids) = Cardinality(DOMAIN r.members)])

\* for i := from; i < to; i++ over the nodes
RECURSIVE OrderedNodes(_, _, _, _)
OrderedNodes(r, i, to, w) ==
  IF w.returned \/ ~(i < to) THEN w
  ELSE OrderedNodes(r, i + 1, to, OrderedNode(r, At(r.nodes, i).Members, w))

\* Ordered without its second loop, over the nodes before bisect.
OrderedNoWrap(r, h) ==
  LET bisect == find(r.nodes, h, TRUE)
      w0 == [members |-> << >>, visited |-> {}, returned |-> FALSE]
  IN OrderedNodes(r, bisect, Len(r.nodes), w0).members

\* Ring.Ordered, for a key whose hash is h.
Ordered(r, h) ==
  LET bisect == find(r.nodes, h, TRUE)
      w0 == [members |-> << >>, visited |-> {}, returned |-> FALSE]
      w1 == OrderedNodes(r, bisect, Len(r.nodes), w0)
  IN OrderedNodes(r, 0, bisect, w1).members

\* ------------------------------------------------------- partitioned ring
\* The bounded-load partitioner.  cfg is its configuration, fixed at
\* construction: the partition count P, the replication factor R, the load
\* factor L (the numerator of L over LoadDenom), the hash of every virtual
\* node (vhash) and of every partition id (phash).  pr is the ring: the member
\* set, the partition table owners (for every partition the list of its
\* owners, primary first), the load counters loads[m][r] of member m for the
\* replica position r, and the assignment state, "fresh" from a mutation until
\* its distribution has ended and "stable" otherwise.
VirtualNodes == 2
LoadDenom == 4
\* The load factors 1.0 and 1.25.
LoadNums == LoadDenom..(LoadDenom + 1)

PartKeys == Names3 \X (0..(VirtualNodes - 1))
PartIds == 0..(MaxPartitions - 1)

Configs ==
  [P : 1..MaxPartitions, R : 1..MaxReplication, L : LoadNums,
   vhash : [PartKeys -> Hashes], phash : [PartIds -> Hashes]]

NoConfig ==
  [P |-> 1, R |-> 1, L |-> LoadDenom, vhash |-> [k \in PartKeys |-> 0],
   phash |-> [id \in PartIds |-> 0]]

\* The ring with no member: every partition without owner.
NoPartition ==
  [members |-> {}, owners |-> [id \in 0..(cfg.P - 1) |-> << >>],
   loads |-> << >>, state |-> "stable"]

\* The virtual nodes of the members ms, each the pair of its hash and owner.
VirtualNodesOf(ms) ==
  {<<cfg.vhash[<<m, i>>], m>> : m \in ms, i \in 0..(VirtualNodes - 1)}

\* The order on the ring: by hash, and at one ring position by member name.
Before(x, y) == x[1] < y[1] \/ (x[1] = y[1] /\ IdLess(x[2], y[2]))

RECURSIVE SortedRing(_)
SortedRing(S) ==
  IF S = {} THEN << >>
  ELSE LET x == CHOOSE v \in S : \A y \in S \ {v} : Before(v, y)
       IN <<x>> \o SortedRing(S \ {x})

\* bisect(h, wrap = true): the index of the first virtual node with a hash of
\* at least h, 0 when there is none.
bisect(vns, h) ==
  LET at == {i \in 0..(Len(vns) - 1) : At(vns, i)[1] >= h}
  IN IF at = {} THEN 0 ELSE SetMin(at)

\* ceil((P / n) x L)
averageLoad(n) == (cfg.P * cfg.L + n * LoadDenom - 1) \div (n * LoadDenom)

NotFound == 0 - 1

\* The clockwise walk from the index from: the index of the first virtual
\* node whose owner is one of ok, NotFound when a whole turn of the ring meets
\* none (the walk then goes on for ever).
Walk(vns, from, ok) ==
  LET ks == {k \in 0..(Len(vns) - 1) :
               At(vns, (from + k) % Len(vns))[2] \in ok}
  IN IF ks = {} THEN NotFound ELSE (from + SetMin(ks)) % Len(vns)

\* Step 2 from the partition id on.  t holds the table owners, the counters
\* loads, for every partition the index at of the virtual node of its latest
\* owner, and whether a walk has gone on for ever (hung).
RECURSIVE Primaries(_, _, _, _)
Primaries(vns, cap, id, t) ==
  IF t.hung \/ id >= cfg.P THEN t
  ELSE LET ok == {m \in DOMAIN t.loads : t.loads[m][0] + 1 <= cap}
           i == Walk(vns, bisect(vns, cfg.phash[id]), ok)
       IN IF i = NotFound THEN [t EXCEPT !.hung = TRUE]
          ELSE LET m == At(vns, i)[2]
               IN Primaries(vns, cap, id + 1,
                    [t EXCEPT !.owners[id] = <<m>>, !.at[id] = i,
                              !.loads[m][0] = @ + 1])

\* Step 3 that takes the next member below its cap, chosen before or not.
RECURSIVE ReplicasAnyOwner(_, _, _, _, _)
ReplicasAnyOwner(vns, cap, id, r, t) ==
  IF t.hung \/ id >= cfg.P THEN t
  ELSE IF r >= Min(cfg.R, Cardinality(DOMAIN t.loads))
  THEN ReplicasAnyOwner(vns, cap, id + 1, 1, t)
  ELSE LET ok == {m \in DOMAIN t.loads : t.loads[m][r] + 1 <= cap}
           i == Walk(vns, (t.at[id] + 1) % Len(vns), ok)
       IN IF i = NotFound THEN [t EXCEPT !.hung = TRUE]
          ELSE LET m == At(vns, i)[2]
               IN ReplicasAnyOwner(vns, cap, id, r + 1,
                    [t EXCEPT !.owners[id] = Append(@, m), !.at[id] = i,
                              !.loads[m][r] = @ + 1])

\* Step 3 without the cap.
RECURSIVE ReplicasNoCap(_, _, _, _, _)
ReplicasNoCap(vns, cap, id, r, t) ==
  IF t.hung \/ id >= cfg.P THEN t
  ELSE IF r >= Min(cfg.R, Cardinality(DOMAIN t.loads))
  THEN ReplicasNoCap(vns, cap, id + 1, 1, t)
  ELSE LET ok == {m \in DOMAIN t.loads : m \notin Range(t.owners[id])}
           i == Walk(vns, (t.at[id] + 1) % Len(vns), ok)
       IN IF i = NotFound THEN [t EXCEPT !.hung = TRUE]
          ELSE LET m == At(vns, i)[2]
               IN ReplicasNoCap(vns, cap, id, r + 1,
                    [t EXCEPT !.owners[id] = Append(@, m), !.at[id] = i,
                              !.loads[m][r] = @ + 1])

\* Step 3 from the partition id and the replica position r on: the walk goes
\* on clockwise from the virtual node of the owner chosen last, to a member
\* not chosen for the partition and below its cap for the position r.
RECURSIVE Replicas(_, _, _, _, _)
Replicas(vns, cap, id, r, t) ==
  IF t.hung \/ id >= cfg.P THEN t
  ELSE IF r >= Min(cfg.R, Cardinality(DOMAIN t.loads))
  THEN Replicas(vns, cap, id + 1, 1, t)
  ELSE LET ok == {m \in DOMAIN t.loads :
                    m \notin Range(t.owners[id]) /\ t.loads[m][r] + 1 <= cap}
           i == Walk(vns, (t.at[id] + 1) % Len(vns), ok)
       IN IF i = NotFound THEN [t EXCEPT !.hung = TRUE]
          ELSE LET m == At(vns, i)[2]
               IN Replicas(vns, cap, id, r + 1,
                    [t EXCEPT !.owners[id] = Append(@, m), !.at[id] = i,
                              !.loads[m][r] = @ + 1])

\* The partition assignment algorithm for the member set ms: the ring it
\* leaves, "fresh" for ever when a walk never ends.
distribute(ms) ==
  IF ms = {} THEN NoPartition
  ELSE LET vns == SortedRing(VirtualNodesOf(ms))
           cap == averageLoad(Cardinality(ms))
           t0 == [owners |-> [id \in 0..(cfg.P - 1) |-> << >>],
                  loads |-> [m \in ms |-> [r \in 0..(cfg.R - 1) |-> 0]],
                  at |-> [id \in 0..(cfg.P - 1) |-> 0],
                  hung |-> FALSE]
           t == Replicas(vns, cap, 0, 1, Primaries(vns, cap, 0, t0))
       IN [members |-> ms, owners |-> t.owners, loads |-> t.loads,
           state |-> IF t.hung THEN "fresh" ELSE "stable"]

\* ------------------------------------------------------------- state
NoLast == [op |-> "none"]
Idle == [pc |-> "idle"]

SetRing(c) ==
  /\ circle' = c.circle
  /\ members' = c.members
  /\ sortedHashes' = c.sortedHashes
  /\ count' = c.count

\* The ring after New, with any hash function.  The third name is given
\* weights of at most one virtual node, so the hashes of its further keys are
\* never looked at and are fixed.
Init3 ==
  /\ hash \in [EltKeys -> Hashes]
  /\ \A k \in EltKeys : (k[2] \notin Names /\ k[1] >= 1) => hash[k] = 0
  /\ circle = << >>
  /\ members = << >>
  /\ sortedHashes = << >>
  /\ count = 0
  /\ last = NoLast
  /\ rd = Idle
  /\ ga = Idle
  /\ sum = NoSum
  /\ d = NewRing
  /\ cfg = NoConfig
  /\ pr = NoPartition

\* The same where only the names of Names are used: the hashes of the keys of
\* the third name are never looked at and are fixed.
Init ==
  /\ hash \in [EltKeys -> Hashes]
  /\ \A k \in EltKeys : k[2] \notin Names => hash[k] = 0
  /\ circle = << >>
  /\ members = << >>
  /\ sortedHashes = << >>
  /\ count = 0
  /\ last = NoLast
  /\ rd = Idle
  /\ ga = Idle
  /\ sum = NoSum
  /\ d = NewRing
  /\ cfg = NoConfig
  /\ pr = NoPartition

\* ------------------------------------------------------------- actions
\* last records the operation called most recently: its name; whether elt was
\* a member when it was called (hit); for UpdateWeight whether the weight grew
\* and whether an entry of another owner changed hands (took); for Set the map
\* passed and whether the call before was Set of the same map (rep); for Get
\* the key and the results.
Add(elt, wgt) ==
  /\ rd.pc = "idle"
  /\ SetRing(add(Ring, elt, wgt))
  /\ last' = [op |-> "Add", hit |-> elt \in DOMAIN members]
  /\ UNCHANGED <<others, hash, rd, ga>>

Remove(elt) ==
  /\ rd.pc = "idle"
  /\ SetRing(remove(Ring, elt))
  /\ last' = [op |-> "Remove", hit |-> elt \in DOMAIN members]
  /\ UNCHANGED <<others, hash, rd, ga>>

UpdateWeight(elt, wgt) ==
  /\ rd.pc = "idle"
  /\ SetRing(updateWeight(Ring, elt, wgt))
  /\ last' = [op |-> "UpdateWeight", hit |-> elt \in DOMAIN members,
              grew |-> elt \in DOMAIN members /\ members[elt] < wgt,
              took |-> LET circ == updateWeight(Ring, elt, wgt).circle
                       IN \E h \in (DOMAIN circle) \cap (DOMAIN circ) :
                            circ[h] # circle[h]]
  /\ UNCHANGED <<others, hash, rd, ga>>

Set(eltMap) ==
  /\ rd.pc = "idle"
  /\ \E ord1 \in Orders(DOMAIN members), ord2 \in Orders(DOMAIN eltMap) :
       SetRing(SetIn(Ring, eltMap, ord1, ord2))
  /\ last' = [op |-> "Set", arg |-> eltMap,
              rep |-> last.op = "Set" /\ last.arg = eltMap]
  /\ UNCHANGED <<others, hash, rd, ga>>

GetCall(key) ==
  /\ rd.pc = "idle"
  /\ last' = [op |-> "Get", key |-> key] @@ Get(Ring, key)
  /\ UNCHANGED <<weighted, others>>

\* A reader holds the read lock from its call to its return, so the
\* operations that take the write lock wait for rd.pc = "idle".
GetTwoCall(key) ==
  /\ rd.pc = "idle"
  /\ ga.pc = "idle"
  /\ rd' = GetTwoBegin(Ring, key)
  /\ last' = [op |-> "GetTwo"]
  /\ UNCHANGED <<others, hash, circle, members, sortedHashes, count, ga>>

GetTwoLoop ==
  /\ rd.pc = "loop"
  /\ rd.op = "GetTwo"
  /\ rd' = GetTwoStep(Ring, rd)
  /\ UNCHANGED <<others, hash, circle, members, sortedHashes, count, last, ga>>

GetNCall(key, n) ==
  /\ rd.pc = "idle"
  /\ ga.pc = "idle"
  /\ rd' = GetNBegin(Ring, key, n)
  /\ last' = [op |-> "GetN"]
  /\ UNCHANGED <<others, hash, circle, members, sortedHashes, count, ga>>

GetNLoop ==
  /\ rd.pc = "loop"
  /\ rd.op = "GetN"
  /\ rd' = GetNStep(Ring, rd)
  /\ UNCHANGED <<others, hash, circle, members, sortedHashes, count, last, ga>>

ReaderReturn ==
  /\ rd.pc = "done"
  /\ ga.pc = "idle"
  /\ rd' = Idle
  /\ UNCHANGED <<others, hash, circle, members, sortedHashes, count, last, ga>>

Next ==
  \/ \E elt \in Names, wgt \in Weights : Add(elt, wgt)
  \/ \E elt \in Names : Remove(elt)
  \/ \E elt \in Names, wgt \in Weights : UpdateWeight(elt, wgt)
  \/ \E eltMap \in EltMaps : Set(eltMap)
  \/ \E key \in Hashes : GetCall(key)

Spec == Init /\ [][Next]_vars

\* The ring with three member names, changed through Add, Remove and
\* UpdateWeight.
WeightsOf(elt) ==
  IF elt \in Names THEN Weights ELSE {w \in Weights : Vn(w) <= 1}

NextGrow ==
  \/ \E elt \in Names3 : \E wgt \in WeightsOf(elt) : Add(elt, wgt)
  \/ \E elt \in Names3 : Remove(elt)
  \/ \E elt \in Names3 : \E wgt \in WeightsOf(elt) : UpdateWeight(elt, wgt)

SpecGrow == Init3 /\ [][NextGrow]_vars

\* The ring with one goroutine reading through GetTwo and GetN.
NextWalk ==
  \/ \E elt \in Names, wgt \in Weights : Add(elt, wgt)
  \/ \E elt \in Names : Remove(elt)
  \/ \E elt \in Names, wgt \in Weights : UpdateWeight(elt, wgt)
  \/ \E eltMap \in EltMaps : Set(eltMap)
  \/ \E key \in Hashes : GetCall(key)
  \/ \E key \in Hashes : GetTwoCall(key)
  \/ \E key \in Hashes, n \in 0..MaxN : GetNCall(key, n)
  \/ GetTwoLoop
  \/ GetNLoop
  \/ ReaderReturn

SpecWalk == Init /\ [][NextWalk]_vars

\* ------------------------------------------------------------- GetAll
\* GetAll reads c.count before GetN takes the read lock, so a writer may run
\* between the two.  ga is the record of one call of GetAll: pc is "read"
\* once count has been read and "walk" once GetN holds the lock; n is the
\* value read; lin is the set of results GetAll would have returned had it
\* run as a whole on one of the rings that existed since the call; races
\* counts the writes that have run since count was read (at most MaxRaces).
Hung == <<"never returns">>

\* GetN run from the reader state r to its return, on a ring that does not
\* change: its result, Hung when the loop starts a second turn of the ring.
RECURSIVE RunGetN(_, _)
RunGetN(c, r) ==
  IF r.pc = "done" THEN r.res
  ELSE IF r.again THEN Hung
  ELSE RunGetN(c, GetNStep(c, r))

GetAllAtOnce(c, key) == RunGetN(c, GetNBegin(c, key, c.count))

Seen(c) ==
  IF ga.pc = "read"
  THEN [ga EXCEPT !.lin = @ \cup {GetAllAtOnce(c, ga.key)},
                  !.races = @ + 1]
  ELSE ga

MayWrite == rd.pc = "idle" /\ (ga.pc = "read" => ga.races < MaxRaces)

GetAllRead(key) ==
  /\ ga.pc = "idle"
  /\ rd.pc = "idle"
  /\ ga' = [pc |-> "read", key |-> key, n |-> count,
            lin |-> {GetAllAtOnce(Ring, key)}, races |-> 0]
  /\ UNCHANGED <<others, hash, circle, members, sortedHashes, count, last, rd>>

GetAllCall ==
  /\ ga.pc = "read"
  /\ rd.pc = "idle"
  /\ rd' = GetNBegin(Ring, ga.key, ga.n)
  /\ ga' = [ga EXCEPT !.pc = "walk"]
  /\ UNCHANGED <<others, hash, circle, members, sortedHashes, count, last>>

GetAllReturn ==
  /\ ga.pc = "walk"
  /\ rd.pc = "done"
  /\ rd' = Idle
  /\ ga' = Idle
  /\ UNCHANGED <<others, hash, circle, members, sortedHashes, count, last>>

\* Add, Remove and UpdateWeight called by another goroutine while a GetAll may
\* be in flight (last is not kept here).
ConcAdd(elt, wgt) ==
  /\ MayWrite
  /\ SetRing(add(Ring, elt, wgt))
  /\ ga' = Seen(add(Ring, elt, wgt))
  /\ UNCHANGED <<others, hash, last, rd>>

ConcRemove(elt) ==
  /\ MayWrite
  /\ SetRing(remove(Ring, elt))
  /\ ga' = Seen(remove(Ring, elt))
  /\ UNCHANGED <<others, hash, last, rd>>

ConcUpdateWeight(elt, wgt) ==
  /\ MayWrite
  /\ SetRing(updateWeight(Ring, elt, wgt))
  /\ ga' = Seen(updateWeight(Ring, elt, wgt))
  /\ UNCHANGED <<others, hash, last, rd>>

NextConc ==
  \/ \E elt \in Names, wgt \in Weights : ConcAdd(elt, wgt)
  \/ \E elt \in Names : ConcRemove(elt)
  \/ \E elt \in Names, wgt \in Weights : ConcUpdateWeight(elt, wgt)
  \/ \E key \in Hashes : GetAllRead(key)
  \/ GetAllCall
  \/ GetNLoop
  \/ GetAllReturn

SpecConc == Init /\ [][NextConc]_vars

\* ------------------------------------------------------------- v2 Ring
\* The ring of package v2 after its declaration, with any hash function.
InitRing ==
  /\ sum \in [SumKeys -> Hashes]
  /\ d = NewRing
  /\ cfg = NoConfig
  /\ pr = NoPartition
  /\ hash = NoHash
  /\ circle = << >>
  /\ members = << >>
  /\ sortedHashes = << >>
  /\ count = 0
  /\ last = NoLast
  /\ rd = Idle
  /\ ga = Idle

\* last records the call: for Add and Remove the member, whether it was a
\* member before (hit) and the value returned (ok); for Get and Ordered the
\* hash of the key and the result.
RingAdd(m, k, w) ==
  /\ d' = ringAdd(d, m, k, w).d
  /\ last' = [op |-> "RingAdd", m |-> m, hit |-> m \in DOMAIN d.members,
              ok |-> ringAdd(d, m, k, w).ok]
  /\ UNCHANGED <<weighted, sum, cfg, pr>>

RingRemove(m) ==
  /\ d' = ringRemove(d, m).d
  /\ last' = [op |-> "RingRemove", m |-> m, hit |-> m \in DOMAIN d.members,
              ok |-> ringRemove(d, m).ok]
  /\ UNCHANGED <<weighted, sum, cfg, pr>>

RingGet(h) ==
  /\ last' = [op |-> "RingGet", key |-> h] @@ ringGet(d, h)
  /\ UNCHANGED <<weighted, others>>

RingOrdered(h) ==
  /\ last' = [op |-> "RingOrdered", key |-> h, res |-> Ordered(d, h)]
  /\ UNCHANGED <<weighted, others>>

NextRing ==
  \/ \E m \in Names3, k \in RingKeys, w \in RingWeights : RingAdd(m, k, w)
  \/ \E m \in Names3 : RingRemove(m)
  \/ \E h \in Hashes : RingGet(h)
  \/ \E h \in Hashes : RingOrdered(h)

SpecRing == InitRing /\ [][NextRing]_vars

\* ------------------------------------------------------- partitioned ring
\* The partitioner after construction with no member, for any configuration.
\* The hashes of the partition ids that are not used are fixed, and the
\* virtual nodes of a member other than the first name share one hash.
InitPartition ==
  /\ cfg \in Configs
  /\ \A id \in PartIds : id >= cfg.P => cfg.phash[id] = 0
  /\ \A k \in PartKeys : k[1] # "a" => cfg.vhash[k] = cfg.vhash[<<k[1], 0>>]
  /\ pr = NoPartition
  /\ sum = NoSum
  /\ d = NewRing
  /\ hash = NoHash
  /\ circle = << >>
  /\ members = << >>
  /\ sortedHashes = << >>
  /\ count = 0
  /\ last = NoLast
  /\ rd = Idle
  /\ ga = Idle

\* A mutation holds the lock until its distribution has ended.
PartitionAdd(m) ==
  /\ pr.state = "stable"
  /\ pr' = IF m \in pr.members THEN pr ELSE distribute(pr.members \cup {m})
  /\ UNCHANGED <<weighted, last, sum, d, cfg>>

PartitionRemove(m) ==
  /\ pr.state = "stable"
  /\ pr' = IF m \notin pr.members THEN pr ELSE distribute(pr.members \ {m})
  /\ UNCHANGED <<weighted, last, sum, d, cfg>>

NextPartition ==
  \/ \E m \in Names3 : PartitionAdd(m)
  \/ \E m \in Names3 : PartitionRemove(m)

SpecPartition == InitPartition /\ [][NextPartition]_vars

\* ------------------------------------------------------------- claims
Empty(f) == DOMAIN f = {}

\* The hash of the first virtual node at or after key on the ring, the
\* smallest hash when there is none (circ is not empty).
FirstAtLeast(circ, key) ==
  IF \E h \in DOMAIN circ : h >= key
  THEN SetMin({h \in DOMAIN circ : h >= key})
  ELSE SetMin(DOMAIN circ)

\* The hash of the first virtual node strictly after key, the smallest hash
\* when there is none.
FirstAbove(circ, key) ==
  IF \E h \in DOMAIN circ : h > key
  THEN SetMin({h \in DOMAIN circ : h > key})
  ELSE SetMin(DOMAIN circ)

NoDuplicates(s) == \A x, y \in 1..Len(s) : x # y => s[x] # s[y]

\* C1: on a ring with at least one virtual node GetN(key, n) returns a
\* sequence without duplicate names whose length is min(n, member-count).
C1_GetNLength ==
  (rd.pc = "done" /\ rd.op = "GetN" /\ ~Empty(circle)) =>
    /\ NoDuplicates(rd.res)
    /\ Len(rd.res) = Min(rd.n0, Cardinality(DOMAIN members))

\* C2: the walk of GetN stops when it has collected n distinct owners or has
\* returned to its start index: the loop body never fetches the entry at the
\* start index again, so the call returns after at most one turn of the ring.
C2_WalkStopsAtStart ==
  (rd.pc # "idle" /\ rd.op = "GetN") => ~rd.again

\* C4: Get and GetTwo return ErrEmptyCircle exactly when the ring holds no
\* virtual node, and leave circle, members, sortedHashes and count unchanged.
C4_ErrorIffEmpty ==
  /\ last.op = "Get" => (last.err = ErrEmptyCircle <=> Empty(circle))
  /\ (rd.pc # "idle" /\ rd.op = "GetTwo") =>
       (rd.err = ErrEmptyCircle <=> Empty(circle))

C4_ReadStep ==
  (last'.op \in {"Get", "GetTwo"}) => ring' = ring

C4_EmptyCircleError == [](C4_ErrorIffEmpty) /\ [][C4_ReadStep]_vars

\* GetTwo has returned ErrEmptyCircle on a ring that has a member but no
\* virtual node.
C4_Witness ==
  /\ rd.pc = "done"
  /\ rd.op = "GetTwo"
  /\ rd.err = ErrEmptyCircle
  /\ ~Empty(members)

\* C3 as stated: on a ring with at least one virtual node, Get(key) returns
\* the owner of the first virtual node whose hash is >= hash(key), and the
\* owner of the smallest-hash virtual node when there is none.
C3_GetFirstAtLeast ==
  (last.op = "Get" /\ ~Empty(circle)) =>
    last.res = circle[FirstAtLeast(circle, last.key)]

\* C3 amended: on a ring with at least one virtual node, Get(key) returns the
\* owner of the first virtual node whose hash is strictly greater than
\* hash(key), and the owner of the smallest-hash virtual node when there is
\* none; a virtual node whose hash equals hash(key) is passed over.
C3_GetFirstAbove ==
  (last.op = "Get" /\ ~Empty(circle)) =>
    /\ last.err = NoErr
    /\ last.res = circle[FirstAbove(circle, last.key)]

\* Get was called with a key whose hash is the hash of a virtual node, and
\* returned the owner of a later virtual node, which is another member.
C3_Witness ==
  /\ last.op = "Get"
  /\ last.key \in DOMAIN circle
  /\ \E h \in DOMAIN circle : h > last.key
  /\ last.res # circle[last.key]

\* C5: UpdateWeight(m, w1) with w1 above m's weight keeps every ring entry,
\* each one unchanged or now owned by m, and for every key Get(key) after the
\* update is Get(key) before it or m.
C5_GrowStep ==
  (last'.op = "UpdateWeight" /\ last'.grew) =>
    LET m == CHOOSE elt \in DOMAIN members : members'[elt] # members[elt] IN
    /\ members[m] < members'[m]
    /\ \A h \in DOMAIN circle :
         /\ h \in DOMAIN circle'
         /\ circle'[h] = circle[h] \/ circle'[h] = m
    /\ \A key \in Hashes :
         Get(Ring', key).res \in {Get(Ring, key).res, m}

C5_GrowKeepsOthers == [][C5_GrowStep]_vars

\* A weight has grown, the grown member took over an entry of another member,
\* and the ring holds virtual nodes of three members.
C5_Witness ==
  /\ last.op = "UpdateWeight"
  /\ last.grew
  /\ last.took
  /\ Cardinality({circle[h] : h \in DOMAIN circle}) = 3

\* C6: Set(S) right after Set(S) leaves circle, members, sortedHashes and
\* count as they were, and Set of the empty map leaves no member, no virtual
\* node and count 0.
C6_SetStep ==
  /\ (last'.op = "Set" /\ last'.rep) => ring' = ring
  /\ (last'.op = "Set" /\ Empty(last'.arg)) =>
       /\ Empty(members')
       /\ Empty(circle')
       /\ sortedHashes' = << >>
       /\ count' = 0

C6_SetTwice == [][C6_SetStep]_vars

\* Set(S) was called twice in a row on a ring that holds virtual nodes of two
\* members.
C6_Witness ==
  /\ last.op = "Set"
  /\ last.rep
  /\ Cardinality({circle[h] : h \in DOMAIN circle}) = 2

\* The calls that make up Set(eltMap) on the ring c, one per member concerned.
SetCalls(c, eltMap) ==
  {[op |-> "Remove", elt |-> m, wgt |-> 0] :
      m \in (DOMAIN c.members) \ (DOMAIN eltMap)}
  \cup {[op |-> "UpdateWeight", elt |-> m, wgt |-> eltMap[m]] :
      m \in {x \in (DOMAIN c.members) \cap (DOMAIN eltMap) :
               c.members[x] # eltMap[x]}}
  \cup {[op |-> "Add", elt |-> m, wgt |-> eltMap[m]] :
      m \in (DOMAIN eltMap) \ (DOMAIN c.members)}

Call(c, o) ==
  CASE o.op = "Remove" -> remove(c, o.elt)
    [] o.op = "UpdateWeight" -> updateWeight(c, o.elt, o.wgt)
    [] o.op = "Add" -> add(c, o.elt, o.wgt)

RECURSIVE CallAll(_, _)
CallAll(c, calls) ==
  IF calls = << >> THEN c ELSE CallAll(Call(c, Head(calls)), Tail(calls))

\* C7: after Set(S) the member-to-weight map is S, and the ring is one that
\* the individual Remove, UpdateWeight and Add calls for the difference
\* between the old members and S produce, applied one by one in some order.
C7_SetStep ==
  (last'.op = "Set") =>
    /\ members' = last'.arg
    /\ \E calls \in Orders(SetCalls(Ring, last'.arg)) :
         Ring' = CallAll(Ring, calls)

C7_SetIsComposition == [][C7_SetStep]_vars

\* Set has been called with a map of two members whose virtual nodes are both
\* on the ring.
C7_Witness ==
  /\ last.op = "Set"
  /\ ~last.rep
  /\ Cardinality(DOMAIN last.arg) = 2
  /\ Cardinality({circle[h] : h \in DOMAIN circle}) = 2

\* C8: Add of a member, Remove of a non-member and UpdateWeight of a
\* non-member leave circle, members, sortedHashes and count unchanged.
C8_NoOpStep ==
  /\ (last'.op = "Add" /\ last'.hit) => ring' = ring
  /\ (last'.op \in {"Remove", "UpdateWeight"} /\ ~last'.hit) => ring' = ring

C8_NoOps == [][C8_NoOpStep]_vars

\* Add was called for a name that was a member, on a ring with virtual nodes.
C8_Witness ==
  /\ last.op = "Add"
  /\ last.hit
  /\ ~Empty(circle)

\* C9: GetAll is linearizable: run concurrently with Add, Remove and
\* UpdateWeight, it returns what it would have returned had it run as a whole
\* on one of the rings that existed between its call and its return (stated
\* for the calls during which GetAll run as a whole would have returned on
\* every such ring, so that the defect of C2 plays no part).
C9_GetAllLinearizable ==
  (ga.pc = "walk" /\ rd.pc = "done" /\ Hung \notin ga.lin) => rd.res \in ga.lin

\* C10: sortedHashes is strictly ascending and its elements are the keys of
\* circle.
C10_SortedHashes ==
  /\ \A x, y \in 1..Len(sortedHashes) :
       x < y => sortedHashes[x] < sortedHashes[y]
  /\ Range(sortedHashes) = DOMAIN circle

\* A weight update has completed on a ring of at least two virtual nodes.
C10_Witness ==
  /\ last.op = "UpdateWeight"
  /\ last.hit
  /\ Len(sortedHashes) >= 2

\* The owners met on the ring after the index start, clockwise, up to and
\* without the entry at start itself.
Clockwise(c, start) ==
  [x \in 1..(Len(c.sortedHashes) - 1) |->
     c.circle[At(c.sortedHashes, (start + x) % Len(c.sortedHashes))]]

\* C17: on a ring with at least two members and at least one virtual node
\* GetTwo(key) returns: its loop does not start a second turn of the ring,
\* and it returns two different names (a, b), a being Get(key) and b the owner
\* of the first virtual node clockwise after the found one that a does not
\* own; with exactly one member it returns (a, "").
C17_GetTwoDistinct ==
  (rd.pc # "idle" /\ rd.op = "GetTwo" /\ ~Empty(circle)) =>
    /\ ~rd.again
    /\ (rd.pc = "done") =>
         LET a == rd.res[1]
             b == rd.res[2]
             after == {x \in 1..(Len(sortedHashes) - 1) :
                          Clockwise(Ring, search(Ring, rd.key))[x] # a}
         IN /\ a = Get(Ring, rd.key).res
            /\ Cardinality(DOMAIN members) = 1 => b = NoName
            /\ Cardinality(DOMAIN members) >= 2 =>
                 /\ b # a
                 /\ after # {}
                 /\ b = Clockwise(Ring, search(Ring, rd.key))[SetMin(after)]

\* C18: every member has all of its virtual nodes on the ring: for a member m
\* of weight w and every index i below floor(NumberOfReplicas x w), the hash
\* of eltKey(m, i) is a key of circle, whatever the hash function.
C18_AllVnodesOnRing ==
  \A m \in DOMAIN members :
    \A i \in 0..(Vn(members[m]) - 1) : hashKey(eltKey(m, i)) \in DOMAIN circle

\* C19: with weights that are not negative, every entry of circle is owned by
\* a name that is a key of members, so Get, GetTwo and GetN return members
\* only (GetTwo gives "" for the second name only where the ring has a single
\* member, to say that there is none).
C19_OwnersAreMembers ==
  /\ \A h \in DOMAIN circle : circle[h] \in DOMAIN members
  /\ (last.op = "Get" /\ last.err = NoErr) => last.res \in DOMAIN members
  /\ (rd.pc = "done" /\ rd.op = "GetN") => Range(rd.res) \subseteq DOMAIN members
  /\ (rd.pc = "done" /\ rd.op = "GetTwo" /\ rd.err = NoErr) =>
       /\ rd.res[1] \in DOMAIN members
       /\ rd.res[2] \in DOMAIN members \/ (rd.res[2] = NoName /\ count = 1)

\* A member has been removed, one of whose keys has the hash of a virtual
\* node of the member that stays.
C19_Witness ==
  /\ last.op = "Remove"
  /\ last.hit
  /\ Cardinality(DOMAIN members) = 1
  /\ \E m \in Names \ DOMAIN members :
       VnHashes(m, 0, Vn(MaxWeight)) \cap DOMAIN circle # {}

\* ------------------------------------------------------------- v2 Ring
\* The ring r after Remove of each member of the sequence ids in turn.
RECURSIVE RemoveAll(_, _)
RemoveAll(r, ids) ==
  IF ids = << >> THEN r
  ELSE RemoveAll(ringRemove(r, Head(ids)).d, Tail(ids))

\* The members that have at least one entry on the ring.
Placed(r) == {m \in DOMAIN r.members : r.members[m].Weight > 0}

C12_CallStep ==
  /\ (last'.op = "RingAdd") =>
       /\ last'.ok = ~last'.hit
       /\ last'.hit => d' = d
       /\ last'.m \in DOMAIN d'.members
  /\ (last'.op = "RingRemove") =>
       /\ last'.ok = last'.hit
       /\ ~last'.hit => d' = d
       /\ last'.m \notin DOMAIN d'.members

C12_AddRemoveResults == [][C12_CallStep]_vars

\* Add has been called for a member of a ring that has nodes.
C12_Witness ==
  /\ last.op = "RingAdd"
  /\ last.hit
  /\ Len(d.nodes) >= 2

\* C13: nodes is strictly ascending by Hash, every node holds at least one
\* member, and within a node Members is ordered by weight descending, then ID
\* ascending, so that the member Get returns is one over which no member of
\* the node it finds has priority.
C13_NodesOrdered ==
  /\ \A i, j \in 1..Len(d.nodes) :
       i < j => d.nodes[i].Hash < d.nodes[j].Hash
  /\ \A i \in 1..Len(d.nodes) :
       LET ms == d.nodes[i].Members IN
       /\ Len(ms) >= 1
       /\ \A x, y \in 1..Len(ms) :
            x < y => \/ ms[x].Weight > ms[y].Weight
                     \/ /\ ms[x].Weight = ms[y].Weight
                        /\ ~IdLess(ms[y].ID, ms[x].ID)
  /\ (last.op = "RingGet" /\ last.ok) =>
       LET ms == At(d.nodes, find(d.nodes, last.key, TRUE)).Members IN
       /\ last.m = ms[1].ID
       /\ \A y \in 1..Len(ms) :
            \/ ms[1].Weight > ms[y].Weight
            \/ ms[1].Weight = ms[y].Weight /\ ~IdLess(ms[y].ID, ms[1].ID)

\* A member has been removed from a ring that keeps two nodes, one of them
\* with members of different weights.
C13_Witness ==
  /\ last.op = "RingRemove"
  /\ last.hit
  /\ Len(d.nodes) >= 2
  /\ \E i \in 1..Len(d.nodes) :
       \E x, y \in 1..Len(d.nodes[i].Members) :
         d.nodes[i].Members[x].Weight > d.nodes[i].Members[y].Weight

\* C20: Add(m, k, w) of a name that is no member, followed at once by
\* Remove(m), gives back the ring as it was: the node hashes, the Members list
\* of every node and the member set.
C20_AddStep ==
  (last'.op = "RingAdd" /\ ~last'.hit) =>
    ringRemove(d', last'.m) = [d |-> d, ok |-> TRUE]

C20_AddThenRemove == [][C20_AddStep]_vars

\* A member has been added that is twice in one node, two of its hashes being
\* equal, together with another member.
C20_Witness ==
  /\ last.op = "RingAdd"
  /\ ~last.hit
  /\ \E i \in 1..Len(d.nodes) :
       LET ms == d.nodes[i].Members IN
       /\ Cardinality({x \in 1..Len(ms) : ms[x].ID = last.m}) = 2
       /\ \E x \in 1..Len(ms) : ms[x].ID # last.m

\* ------------------------------------------------------- partitioned ring
RECURSIVE SumOver(_, _)
SumOver(f, S) ==
  IF S = {} THEN 0
  ELSE LET x == CHOOSE y \in S : TRUE IN f[x] + SumOver(f, S \ {x})

\* The load counter of the member m: its slots over all replica positions.
Load(m) == SumOver(pr.loads[m], DOMAIN pr.loads[m])

MemberCount == Cardinality(pr.members)

\* C14 as stated: with n >= 1 members every member's load counter is at most
\* ceil((P/n) x L).
C14_LoadAtMostCap ==
  (pr.state = "stable" /\ MemberCount >= 1) =>
    \A m \in pr.members : Load(m) <= averageLoad(MemberCount)

\* C14 amended: with n >= 1 members every member's load counter for each
\* replica position is at most ceil((P/n) x L), so that its load counter over
\* all positions is at most min(R, n) x ceil((P/n) x L).
C14_LoadAtMostCapPerPosition ==
  (MemberCount >= 1) =>
    \A m \in pr.members :
      /\ \A r \in DOMAIN pr.loads[m] :
           pr.loads[m][r] <= averageLoad(MemberCount)
      /\ Load(m) <= Min(cfg.R, MemberCount) * averageLoad(MemberCount)

\* The partitions are distributed over three members with two owners each,
\* and a member holds more slots than the cap of one position.
C14_Witness ==
  /\ pr.state = "stable"
  /\ MemberCount = 3
  /\ cfg.R = 2
  /\ \E m \in pr.members : Load(m) > averageLoad(MemberCount)
  /\ \E m \in pr.members : pr.loads[m][0] = averageLoad(MemberCount)

\* C15: after a membership mutation every partition id in [0, P) has exactly
\* min(R, member-count) distinct owners, members all, and the sum of all load
\* counters is P x min(R, member-count).
C15_TotalCoverage ==
  (pr.state = "stable") =>
    /\ \A id \in 0..(cfg.P - 1) :
         /\ Len(pr.owners[id]) = Min(cfg.R, MemberCount)
         /\ NoDuplicates(pr.owners[id])
         /\ Range(pr.owners[id]) \subseteq pr.members
    /\ DOMAIN pr.loads = pr.members
    /\ SumOver([m \in pr.members |-> Load(m)], pr.members)
         = cfg.P * Min(cfg.R, MemberCount)
    /\ \A m \in pr.members : \A r \in DOMAIN pr.loads[m] :
         pr.loads[m][r]
           = Cardinality({id \in 0..(cfg.P - 1) :
                            Len(pr.owners[id]) > r /\ pr.owners[id][r + 1] = m})

\* Three partitions have two owners each among three members, and the primary
\* of one of them is not the owner of the virtual node its hash falls on, the
\* cap having moved the walk on.
C15_Witness ==
  /\ pr.state = "stable"
  /\ cfg.P = 3
  /\ cfg.R = 2
  /\ MemberCount = 3
  /\ \E id \in 0..(cfg.P - 1) :
       pr.owners[id][1] # At(SortedRing(VirtualNodesOf(pr.members)),
                             bisect(SortedRing(VirtualNodesOf(pr.members)),
                                    cfg.phash[id]))[2]

\* C16: the partition assignment algorithm run after a mutation terminates:
\* for each partition and each replica position the clockwise walk reaches a
\* member that is not an owner of the partition yet and is below its cap for
\* the position, so no mutation leaves the ring "fresh".
C16_DistributeTerminates == pr.state = "stable"

\* ------------------------------------------------------- weighted ring
\* C21: after every completed Add, Remove, UpdateWeight or Set, calls that
\* change nothing included, count is the number of keys of members.
C21_CountIsMembers == count = Cardinality(DOMAIN members)

\* Remove has been called for a name that is no member, on a ring of one
\* member.
C21_Witness ==
  /\ last.op = "Remove"
  /\ ~last.hit
  /\ count = 1
  /\ Cardinality(DOMAIN members) = 1

=============================================================================
